---- MODULE Spec2Model ----
(***************************************************************************)
(* Model of the image gallery web application in src/main.py: a Flask app  *)
(* whose route handlers read and write a name-keyed object store (one      *)
(* bucket) and call a generative-AI inference service.                     *)
(*                                                                         *)
(* Object names are sequences of one-character strings, so that the        *)
(* suffix test and the rsplit of the source are computed, not assumed.     *)
(* Object contents are records [len, fmt, body]: the byte length, the      *)
(* image format PIL detects ("none" when the bytes are no image), and the  *)
(* payload as a sequence of tokens.                                        *)
(***************************************************************************)
EXTENDS Integers, Sequences, FiniteSets, TLC

VARIABLES
    store,      \* the bucket: a function from the names of the stored objects to contents
    api_key,    \* GOOGLE_API_KEY as read once at process start ("" = unset or empty)
    hs,         \* one record per upload request handler (thread)
    started,    \* number of upload requests received so far
    resp,       \* the response of the last GET request answered
    probe       \* the object name whose derived names are computed (name derivation only)

vars == <<store, api_key, hs, started, resp, probe>>

----------------------------------------------------------------------------
(* Bounds *)

MaxUploads == 2     \* upload requests received in one behaviour
MaxStem == 3        \* longest stem of a probed object name

Handlers == {1, 2}    \* the threads serving upload requests concurrently

----------------------------------------------------------------------------
(* Strings as sequences of characters *)

EndsWith(s, suf) ==
    /\ Len(s) >= Len(suf)
    /\ SubSeq(s, Len(s) - Len(suf) + 1, Len(s)) = suf

\* mutant: split('.')[0] instead of rsplit('.', 1)[0] (cuts at the first dot)
RSplitHead_first(s) ==
    IF \E i \in 1..Len(s) : s[i] = "."
    THEN LET k == CHOOSE i \in 1..Len(s) :
                     /\ s[i] = "."
                     /\ \A j \in 1..Len(s) : s[j] = "." => j >= i
         IN  SubSeq(s, 1, k - 1)
    ELSE s

\* s.rsplit('.', 1)[0]: the part before the last dot, the whole of s when it has none
RSplitHead(s) ==
    IF \E i \in 1..Len(s) : s[i] = "."
    THEN LET k == CHOOSE i \in 1..Len(s) :
                     /\ s[i] = "."
                     /\ \A j \in 1..Len(s) : s[j] = "." => j <= i
         IN  SubSeq(s, 1, k - 1)
    ELSE s

EXT_JPG  == <<".", "j", "p", "g">>
EXT_JPEG == <<".", "j", "p", "e", "g">>
EXT_PNG  == <<".", "p", "n", "g">>
JSON_SUFFIX == <<"-", "j", "s", "o", "n", ".", "j", "s", "o", "n">>

\* blob.name.endswith((".jpg", ".jpeg", ".png"))
IsImageName(name) ==
    \/ EndsWith(name, EXT_JPG)
    \/ EndsWith(name, EXT_JPEG)
    \/ EndsWith(name, EXT_PNG)

\* the metadata object name as index computes it
index_json_filename(name) == RSplitHead(name) \o JSON_SUFFIX

\* the metadata object name as save_info computes it
save_info_json_filename(name) == RSplitHead(name) \o JSON_SUFFIX

----------------------------------------------------------------------------
(* Object contents *)

MinImageBytes == 500

ImageFormats == {"JPEG", "PNG"}     \* what Image.open decodes here

NoBytes == [len |-> 0, fmt |-> "none", body |-> <<>>]

Img1 == [len |-> 2048, fmt |-> "JPEG", body |-> <<"pixels", "1">>]
Img2 == [len |-> 4096, fmt |-> "PNG",  body |-> <<"pixels", "2">>]
\* a valid image below the size threshold (a one-pixel PNG)
Dot  == [len |-> 68, fmt |-> "PNG", body |-> <<"pixels", "3">>]
\* a three-byte file holding the JSON text [1]
Tiny == [len |-> 3, fmt |-> "none", body |-> <<"[", "1", "]">>]

UploadData == {Img1, Img2, Dot, Tiny}

A_JPG  == <<"a">> \o EXT_JPG
A_PNG  == <<"a">> \o EXT_PNG
A_JSON == <<"a">> \o JSON_SUFFIX
FOO_BAR_JPG == <<"f", "o", "o", ".", "b", "a", "r">> \o EXT_JPG

UploadNames == {A_JPG, A_PNG, A_JSON}

\* every object name a request can name or an upload can create
ObjNames == UploadNames \cup {save_info_json_filename(n) : n \in UploadNames}

----------------------------------------------------------------------------
(* The metadata codec *)

TextLen(t) ==
    CASE t = "Error" -> 5
      [] t = "Error fetching title" -> 20
      [] t = "Error fetching description" -> 26
      [] OTHER -> 12

\* json.dumps({"title": title, "description": description}) as the bytes written
json_dumps(title, description) ==
    [len  |-> 32 + TextLen(title) + TextLen(description),
     fmt  |-> "none",
     body |-> <<"{", "title", ":", title, ",", "description", ":", description, "}">>]

\* json.loads: [ok, kind, title, description]; ok = FALSE when it raises
json_loads(data) ==
    LET b == data.body IN
    IF /\ Len(b) = 9
       /\ b[1] = "{" /\ b[2] = "title" /\ b[3] = ":" /\ b[5] = ","
       /\ b[6] = "description" /\ b[7] = ":" /\ b[9] = "}"
    THEN [ok |-> TRUE, kind |-> "dict", title |-> b[4], description |-> b[8]]
    ELSE IF Len(b) >= 2 /\ b[1] = "[" /\ b[Len(b)] = "]"
    THEN [ok |-> TRUE, kind |-> "list", title |-> "", description |-> ""]
    ELSE [ok |-> FALSE, kind |-> "none", title |-> "", description |-> ""]

----------------------------------------------------------------------------
(* Metadata generation *)

\* the text the model returns for the decoded image and an instruction
infer(image, instruction) ==
    (IF instruction = "title" THEN "T" ELSE "D") \o image.body[2]

InferOutcomes == {<<"ok", "ok">>, <<"ok", "fail">>, <<"fail", "ok">>}

\* What blob.download_as_bytes() can give for `name`: the stored bytes, or a
\* failure (always, when no object has that name).
Fetches(st, name) ==
    {[ok |-> FALSE, data |-> NoBytes]}
        \cup (IF name \in DOMAIN st THEN {[ok |-> TRUE, data |-> st[name]]} ELSE {})

ErrorPair(dl, got, inf) ==
    [title |-> "Error fetching title", description |-> "Error fetching description",
     dl |-> dl, got |-> got, inf |-> inf]

\* mutant: the minimum-size check is missing
generate_title_description_nosize(key, fetch, ai) ==
    IF key = ""
    THEN [title |-> "Error", description |-> "Error",
          dl |-> "none", got |-> NoBytes, inf |-> <<>>]
    ELSE IF ~fetch.ok
    THEN ErrorPair("fail", NoBytes, <<>>)
    ELSE IF fetch.data.fmt \notin ImageFormats
    THEN ErrorPair("ok", fetch.data, <<>>)
    ELSE IF ai[1] = "fail"
    THEN ErrorPair("ok", fetch.data, <<"fail">>)
    ELSE IF ai[2] = "fail"
    THEN ErrorPair("ok", fetch.data, <<"ok", "fail">>)
    ELSE [title |-> infer(fetch.data, "title"),
          description |-> infer(fetch.data, "description"),
          dl |-> "ok", got |-> fetch.data, inf |-> <<"ok", "ok">>]

\* generate_title_description(blob), given the credential, the outcome of the
\* re-download and the outcomes the two inference calls have if they are made.
\* Returns the pair, with what the run did: dl ("none" = no download attempted),
\* got (the bytes downloaded) and inf (the outcomes of the inference calls made).
generate_title_description(key, fetch, ai) ==
    IF key = ""
    THEN [title |-> "Error", description |-> "Error",
          dl |-> "none", got |-> NoBytes, inf |-> <<>>]
    ELSE IF ~fetch.ok
    THEN ErrorPair("fail", NoBytes, <<>>)
    ELSE IF fetch.data.len < MinImageBytes
    THEN ErrorPair("ok", fetch.data, <<>>)
    ELSE IF fetch.data.fmt \notin ImageFormats
    THEN ErrorPair("ok", fetch.data, <<>>)
    ELSE IF ai[1] = "fail"
    THEN ErrorPair("ok", fetch.data, <<"fail">>)
    ELSE IF ai[2] = "fail"
    THEN ErrorPair("ok", fetch.data, <<"ok", "fail">>)
    ELSE [title |-> infer(fetch.data, "title"),
          description |-> infer(fetch.data, "description"),
          dl |-> "ok", got |-> fetch.data, inf |-> <<"ok", "ok">>]

----------------------------------------------------------------------------
(* The object store *)

\* mutant: the write creates the object only when the name is free
bucket_put_if_absent(st, name, data) == st @@ (name :> data)

\* blob.upload_from_file / blob.upload_from_string: the object under `name` is
\* created, or replaced when the name is taken
bucket_put(st, name, data) == (name :> data) @@ st

----------------------------------------------------------------------------
(* Upload request handlers *)

\* A handler: pc is its position in upload(); present/fname/data are the request
\* (the form_file field, its filename, its bytes); put says the image object was
\* written; title, description, dl, got, inf are what save_info's call of
\* generate_title_description returned and did; wrote is the outcome of the
\* metadata write ("none" = not attempted); status is the HTTP status answered.
IdleHandler ==
    [pc |-> "idle", present |-> FALSE, fname |-> <<>>, data |-> NoBytes,
     put |-> FALSE, title |-> "", description |-> "",
     dl |-> "none", got |-> NoBytes, inf |-> <<>>,
     wrote |-> "none", status |-> 0]

Requests ==
    {[present |-> FALSE, fname |-> <<>>, data |-> NoBytes]}
        \cup {[present |-> TRUE, fname |-> n, data |-> d] :
                 n \in UploadNames \cup {<<>>}, d \in UploadData}

\* mutant: the empty-filename check is missing
InputChecks_nofilename(req) ==
    IF ~req.present THEN 400 ELSE 0

\* the two input checks of upload(): the status they answer, 0 when both pass
InputChecks(req) ==
    IF ~req.present THEN 400
    ELSE IF req.fname = <<>> THEN 400
    ELSE 0

\* POST /upload is received by the first free thread and the input checks run
UploadRequest(h, req) ==
    /\ hs[h].pc = "idle"
    /\ \A g \in Handlers : g < h => hs[g].pc # "idle"
    /\ started < MaxUploads
    /\ started' = started + 1
    /\ hs' = [hs EXCEPT ![h] =
                [IdleHandler EXCEPT
                    !.present = req.present, !.fname = req.fname, !.data = req.data,
                    !.status = InputChecks(req),
                    !.pc = IF InputChecks(req) = 0 THEN "put" ELSE "done"]]
    /\ UNCHANGED <<store, api_key, resp, probe>>

\* upload_to_gcs(file): the image object is written, or the write raises and the
\* request ends with a server error (nothing in upload() catches it)
upload_to_gcs(h) ==
    /\ hs[h].pc = "put"
    /\ \/ /\ store' = bucket_put(store, hs[h].fname, hs[h].data)
          /\ hs' = [hs EXCEPT ![h].put = TRUE, ![h].pc = "gen"]
       \/ /\ hs' = [hs EXCEPT ![h].status = 500, ![h].pc = "done"]
          /\ UNCHANGED store
    /\ UNCHANGED <<api_key, started, resp, probe>>

\* save_info(blob), first half: generate_title_description(blob)
save_info_generate(h) ==
    /\ hs[h].pc = "gen"
    /\ \E fetch \in Fetches(store, hs[h].fname), ai \in InferOutcomes :
          LET r == generate_title_description(api_key, fetch, ai) IN
          hs' = [hs EXCEPT ![h].title = r.title, ![h].description = r.description,
                           ![h].dl = r.dl, ![h].got = r.got, ![h].inf = r.inf,
                           ![h].pc = "write"]
    /\ UNCHANGED <<store, api_key, started, resp, probe>>

\* mutant: save_info does not catch a failed write, and the request ends with 500
upload_status_uncaught(write_ok) == IF write_ok THEN 302 ELSE 500

\* the status upload() answers once save_info has returned: save_info catches a
\* failed write, so upload() reaches redirect("/") either way
upload_status(write_ok) == 302

\* save_info(blob), second half: the record is written under the derived name (a
\* failure is caught and logged), then upload() returns the redirect
save_info_write(h) ==
    /\ hs[h].pc = "write"
    /\ \/ /\ store' = bucket_put(store, save_info_json_filename(hs[h].fname),
                                 json_dumps(hs[h].title, hs[h].description))
          /\ hs' = [hs EXCEPT ![h].wrote = "ok", ![h].status = upload_status(TRUE),
                              ![h].pc = "done"]
       \/ /\ hs' = [hs EXCEPT ![h].wrote = "fail", ![h].status = upload_status(FALSE),
                              ![h].pc = "done"]
          /\ UNCHANGED store
    /\ UNCHANGED <<api_key, started, resp, probe>>

\* the response has been sent; the thread is free for the next request
Complete(h) ==
    /\ hs[h].pc = "done"
    /\ hs' = [hs EXCEPT ![h] = IdleHandler]
    /\ UNCHANGED <<store, api_key, started, resp, probe>>

----------------------------------------------------------------------------
(* GET handlers *)

NoResponse == [route |-> "none", name |-> <<>>, status |-> 0, kind |-> "none",
               entries |-> <<>>]

\* bucket.list_blobs(): every stored object once (the order is the store's)
RECURSIVE list_blobs(_)
list_blobs(names) ==
    IF names = {} THEN <<>>
    ELSE LET n == CHOOSE x \in names : TRUE
         IN  <<n>> \o list_blobs(names \ {n})

Placeholder == [title |-> "No title", description |-> "No description"]

\* The body of index's loop for one image blob: json_info after the try, and the
\* two json_info.get(...) of the f-string. raises = TRUE when the f-string
\* raises: json.loads gave a value that is no dict, which has no get(). The names
\* in fetchFails are those whose metadata download fails in this request.
json_info(st, name, fetchFails) ==
    LET jn == index_json_filename(name) IN
    IF jn \notin DOMAIN st \/ name \in fetchFails
    THEN [raises |-> FALSE, title |-> Placeholder.title,
          description |-> Placeholder.description]
    ELSE LET v == json_loads(st[jn]) IN
         IF ~v.ok
         THEN [raises |-> FALSE, title |-> Placeholder.title,
               description |-> Placeholder.description]
         ELSE IF v.kind = "dict"
         THEN [raises |-> FALSE, title |-> v.title, description |-> v.description]
         ELSE [raises |-> TRUE, title |-> "", description |-> ""]

\* the for loop of index over blobs[i..]: the fragments appended, or a raise
RECURSIVE render(_, _, _, _)
render(st, blobs, i, fetchFails) ==
    IF i > Len(blobs) THEN [raises |-> FALSE, entries |-> <<>>]
    ELSE IF ~IsImageName(blobs[i]) THEN render(st, blobs, i + 1, fetchFails)
    ELSE LET info == json_info(st, blobs[i], fetchFails)
             rest == render(st, blobs, i + 1, fetchFails)
         IN  IF info.raises \/ rest.raises
             THEN [raises |-> TRUE, entries |-> <<>>]
             ELSE [raises |-> FALSE,
                   entries |-> <<[name |-> blobs[i], title |-> info.title,
                                  description |-> info.description]>> \o rest.entries]

\* The response of GET / on store st, the listing call itself having succeeded
\* (a failure of bucket.list_blobs() is not modelled).
index(st, fetchFails) ==
    LET r == render(st, list_blobs(DOMAIN st), 1, fetchFails) IN
    IF r.raises
    THEN [route |-> "index", name |-> <<>>, status |-> 500, kind |-> "error",
          entries |-> <<>>]
    ELSE [route |-> "index", name |-> <<>>, status |-> 200, kind |-> "html",
          entries |-> r.entries]

ImageBlobs(st) == {n \in DOMAIN st : IsImageName(n)}

\* GET /
IndexRequest ==
    /\ \E fetchFails \in SUBSET ImageBlobs(store) : resp' = index(store, fetchFails)
    /\ UNCHANGED <<store, api_key, hs, started, probe>>

\* mutant: a failed fetch is answered the way download_file answers it
serve_image_status_500(fetch_ok) == IF fetch_ok THEN 200 ELSE 500

\* the status serve_image answers
serve_image_status(fetch_ok) == IF fetch_ok THEN 200 ELSE 404

\* GET /image/<filename>
serve_image(filename) ==
    /\ \E fetch \in Fetches(store, filename) :
          resp' = [route |-> "image", name |-> filename,
                   status |-> serve_image_status(fetch.ok),
                   kind |-> IF fetch.ok THEN "image/jpeg" ELSE "text",
                   entries |-> <<>>]
    /\ UNCHANGED <<store, api_key, hs, started, probe>>

----------------------------------------------------------------------------
(* Name derivation on its own *)

RECURSIVE Stems(_)
Stems(n) ==
    IF n = 0 THEN {<<>>}
    ELSE Stems(n - 1) \cup {s \o <<c>> : s \in Stems(n - 1), c \in {"a", "."}}

ImageExts == {EXT_JPG, EXT_JPEG, EXT_PNG}

OtherExts == {<<>>, <<".", "j", "s", "o", "n">>, JSON_SUFFIX}

\* the object names probed: every stem with every ending, and the name of the
\* documented example
NameInputs ==
    {s \o e : s \in Stems(MaxStem), e \in ImageExts \cup OtherExts} \cup {FOO_BAR_JPG}

NoProbe == [name |-> <<>>, derived |-> FALSE, listed |-> FALSE,
            index |-> <<>>, save_info |-> <<>>]

\* the suffix filter and the two derivations are applied to the probed name
DeriveNames ==
    /\ ~probe.derived
    /\ probe' = [probe EXCEPT !.derived = TRUE,
                              !.listed = IsImageName(probe.name),
                              !.index = index_json_filename(probe.name),
                              !.save_info = save_info_json_filename(probe.name)]
    /\ UNCHANGED <<store, api_key, hs, started, resp>>

----------------------------------------------------------------------------
(* Specifications *)

Init ==
    /\ store = <<>>
    /\ api_key \in {"", "key"}
    /\ hs = [h \in Handlers |-> IdleHandler]
    /\ started = 0
    /\ resp = NoResponse
    /\ probe = NoProbe

Next ==
    \/ \E h \in Handlers, req \in Requests : UploadRequest(h, req)
    \/ \E h \in Handlers : upload_to_gcs(h)
    \/ \E h \in Handlers : save_info_generate(h)
    \/ \E h \in Handlers : save_info_write(h)
    \/ \E h \in Handlers : Complete(h)
    \/ IndexRequest
    \/ \E n \in ObjNames : serve_image(n)

\* every handler, requests arriving concurrently
Spec == Init /\ [][Next]_vars

NextUploads ==
    \/ \E h \in Handlers, req \in Requests : UploadRequest(h, req)
    \/ \E h \in Handlers : upload_to_gcs(h)
    \/ \E h \in Handlers : save_info_generate(h)
    \/ \E h \in Handlers : save_info_write(h)
    \/ \E h \in Handlers : Complete(h)

\* the upload handler alone, requests arriving concurrently
SpecUploads == Init /\ [][NextUploads]_vars

AllIdle == \A h \in Handlers : hs[h].pc = "idle"

NextSeq ==
    \/ \E h \in Handlers, req \in Requests : AllIdle /\ UploadRequest(h, req)
    \/ \E h \in Handlers : upload_to_gcs(h)
    \/ \E h \in Handlers : save_info_generate(h)
    \/ \E h \in Handlers : save_info_write(h)
    \/ \E h \in Handlers : Complete(h)
    \/ IndexRequest
    \/ \E n \in ObjNames : serve_image(n)

\* every handler, upload requests arriving one after the other
SpecSeq == Init /\ [][NextSeq]_vars

InitNames ==
    /\ store = <<>>
    /\ api_key = ""
    /\ hs = [h \in Handlers |-> IdleHandler]
    /\ started = 0
    /\ resp = NoResponse
    /\ probe \in {[NoProbe EXCEPT !.name = n] : n \in NameInputs}

\* the name derivation applied to every probed name
SpecNames == InitNames /\ [][DeriveNames]_vars

----------------------------------------------------------------------------
(* Properties *)

Busy(h) == hs[h].pc # "idle"

Redirected(h) == hs[h].pc = "done" /\ hs[h].status = 302

AIPair(d) == [title |-> infer(d, "title"), description |-> infer(d, "description")]

PairOf(h) == [title |-> hs[h].title, description |-> hs[h].description]

FetchErrorPair ==
    [title |-> "Error fetching title", description |-> "Error fetching description"]

NoKeyPair == [title |-> "Error", description |-> "Error"]

\* C2: an upload request without the form_file field, or with an empty filename,
\* is answered 400 at once; its handler writes neither an image object nor a
\* metadata object and never enters the metadata pipeline, so the store holds
\* no object under the empty name or under the name derived from it.
C2_BadUploadRejected ==
    /\ \A h \in Handlers :
          (Busy(h) /\ (~hs[h].present \/ hs[h].fname = <<>>))
              => /\ hs[h].pc = "done"
                 /\ hs[h].status = 400
                 /\ ~hs[h].put
                 /\ hs[h].dl = "none" /\ hs[h].inf = <<>> /\ hs[h].title = ""
                 /\ hs[h].wrote = "none"
    /\ \A h \in Handlers : hs[h].status = 400 => (~hs[h].present \/ hs[h].fname = <<>>)
    /\ <<>> \notin DOMAIN store
    /\ save_info_json_filename(<<>>) \notin DOMAIN store

\* an empty filename was rejected while the store already held objects
C2_Witness ==
    \E h \in Handlers :
        /\ hs[h].status = 400 /\ hs[h].present /\ hs[h].fname = <<>>
        /\ DOMAIN store # {}

\* C5: once the image object of an upload is written, whatever fails later (the
\* credential, the re-download, the size check, the decoding, the inference,
\* the metadata write), the request ends with the redirect, and the image
\* object is in the store at every later point of the request.
C5_PipelineFailuresNotReported ==
    \A h \in Handlers :
        /\ hs[h].put => hs[h].fname \in DOMAIN store
        /\ (hs[h].pc = "done" /\ hs[h].put) => hs[h].status = 302
        /\ (hs[h].pc = "done" /\ hs[h].status = 500) => (~hs[h].put /\ hs[h].wrote = "none")

\* an upload whose re-download and metadata write both failed got the redirect
C5_Witness ==
    \E h \in Handlers :
        /\ Redirected(h) /\ hs[h].wrote = "fail" /\ hs[h].dl = "fail"
        /\ hs[h].title = "Error fetching title"

HasRun(h) == hs[h].pc = "write" \/ hs[h].wrote # "none"

C7_MetadataName ==
    probe.derived =>
        /\ probe.index = probe.save_info
        /\ \A s \in Stems(MaxStem), e \in ImageExts :
              probe.name = s \o e => (probe.listed /\ probe.save_info = s \o JSON_SUFFIX)
        /\ probe.name = FOO_BAR_JPG
              => probe.save_info = <<"f", "o", "o", ".", "b", "a", "r">> \o JSON_SUFFIX

\* the documented example has been derived
C7_Witness ==
    /\ probe.derived /\ probe.name = FOO_BAR_JPG /\ probe.listed
    /\ Len(probe.index) = 17

\* C8: GET /image/<name> for a name under which nothing is stored is answered
\* 404 with a plain-text message, and no request for an image changes the store.
C8_MissingImage404 ==
    [][(resp' # resp /\ resp'.route = "image")
          => /\ store' = store
             /\ resp'.name \notin DOMAIN store
                   => (resp'.status = 404 /\ resp'.kind = "text")]_vars

\* an image was requested under a name that holds no object, other names do
C8_Witness ==
    /\ resp.route = "image" /\ resp.name \notin DOMAIN store
    /\ resp.status = 404
    /\ DOMAIN store # {}

MetadataShown(name) == json_loads(store[index_json_filename(name)])

NoDuplicateEntries(r) ==
    \A i, j \in 1..Len(r.entries) :
        r.entries[i].name = r.entries[j].name => i = j

\* C3 as stated: when a (re-)upload has been answered with the redirect, the
\* object under its filename holds the new bytes and the metadata object under
\* the derived name holds the record generated in this upload.
C3_Original ==
    \A h \in Handlers :
        Redirected(h) =>
            /\ store[hs[h].fname] = hs[h].data
            /\ index_json_filename(hs[h].fname) \in DOMAIN store
            /\ MetadataShown(hs[h].fname).ok
            /\ MetadataShown(hs[h].fname).kind = "dict"
            /\ MetadataShown(hs[h].fname).title = hs[h].title
            /\ MetadataShown(hs[h].fname).description = hs[h].description

\* C3, amended: with uploads arriving one after the other, an upload answered
\* with the redirect has replaced the object under its filename by the new
\* bytes; the record it generated comes from these bytes when the re-download
\* succeeded; when its metadata write succeeded, the object under the derived
\* name decodes to that record, and when the write failed the store is left as
\* it was (an earlier record stays, or there is none); a gallery listing that
\* renders shows no filename twice.
C3_ReuploadReplaces ==
    /\ [](\A h \in Handlers :
            Redirected(h) =>
                /\ store[hs[h].fname] = hs[h].data
                /\ hs[h].dl = "ok" => hs[h].got = hs[h].data
                /\ hs[h].wrote \in {"ok", "fail"}
                /\ hs[h].wrote = "ok"
                      => /\ index_json_filename(hs[h].fname) \in DOMAIN store
                         /\ MetadataShown(hs[h].fname).ok
                         /\ MetadataShown(hs[h].fname).kind = "dict"
                         /\ MetadataShown(hs[h].fname).title = hs[h].title
                         /\ MetadataShown(hs[h].fname).description = hs[h].description
                /\ NoDuplicateEntries(index(store, {})))
    /\ [][\A h \in Handlers :
            (hs[h].pc = "write" /\ hs'[h].wrote = "fail") => store' = store]_vars

\* a.jpg was uploaded again with other bytes and its metadata write failed: the
\* record of the earlier upload is still the one the gallery reads
C3_Witness ==
    \E h \in Handlers :
        /\ Redirected(h) /\ hs[h].fname = A_JPG /\ hs[h].wrote = "fail"
        /\ DOMAIN store = {A_JPG, index_json_filename(A_JPG)}
        /\ MetadataShown(A_JPG).kind = "dict"
        /\ MetadataShown(A_JPG).title # hs[h].title

ShownPairs ==
    {Placeholder, NoKeyPair, FetchErrorPair}
        \cup {AIPair(d) : d \in {x \in UploadData : x.fmt \in ImageFormats}}

EntriesFor(r, name) == {i \in 1..Len(r.entries) : r.entries[i].name = name}

\* C1, for the filenames the gallery lists (those ending in .jpg, .jpeg or .png;
\* the claim says it of every non-empty filename, so it claims at least this):
\* when an upload has been answered with the redirect, a gallery listing
\* renders, has exactly one entry for the filename, and that entry shows an
\* AI-generated pair, an error pair or the placeholder.
C1_Original ==
    \A h \in Handlers :
        (Redirected(h) /\ IsImageName(hs[h].fname)) =>
            \A fetchFails \in SUBSET ImageBlobs(store) :
                LET r == index(store, fetchFails) IN
                /\ r.status = 200
                /\ Cardinality(EntriesFor(r, hs[h].fname)) = 1
                /\ \A i \in EntriesFor(r, hs[h].fname) :
                      [title |-> r.entries[i].title,
                       description |-> r.entries[i].description] \in ShownPairs

\* C4: GET / is answered 200 whatever the store holds.
C4_Original ==
    resp.route = "index" => resp.status = 200

BothDone(h, g) ==
    /\ h # g
    /\ Redirected(h) /\ Redirected(g)
    /\ hs[h].fname = hs[g].fname /\ hs[h].data # hs[g].data
    /\ hs[h].wrote = "ok" /\ hs[g].wrote = "ok"
    /\ hs[h].inf = <<"ok", "ok">> /\ hs[g].inf = <<"ok", "ok">>

\* C9: when two concurrent uploads of one filename with different contents
\* have both completed (each having generated and written a record), the
\* stored record is the one generated from the bytes stored under the filename.
C9_Original ==
    \A h, g \in Handlers :
        (BothDone(h, g) /\ IsImageName(hs[h].fname)) =>
            /\ MetadataShown(hs[h].fname).title = infer(store[hs[h].fname], "title")
            /\ MetadataShown(hs[h].fname).description
                  = infer(store[hs[h].fname], "description")

\* C10: two different filenames the gallery lists never derive the same
\* metadata object name, and no upload writes its image object under the
\* metadata object name of a listed image.
C10_Original ==
    /\ \A m, n \in ImageBlobs(store) :
          m # n => index_json_filename(m) # index_json_filename(n)
    /\ \A h \in Handlers :
          hs[h].put => \A n \in ImageBlobs(store) : hs[h].fname # index_json_filename(n)

====
